---- MODULE Spec2Model ----
(***************************************************************************)
(* Model of the ingestion pipeline of pixeltable-takeout-ingestor:         *)
(*   takeout_ingestor/ingestors/base.py       IngestorProgress,            *)
(*                                             BaseIngestor                 *)
(*   takeout_ingestor/ingestors/claude_conversations.py                     *)
(*                                             ClaudeConversationIngestor   *)
(*                                                                         *)
(* One pipeline instance is modelled.  ingest() is split into the steps    *)
(* between which another caller (a second thread, or a hook running inside *)
(* transform_record) can invoke the public methods pause(), resume() and   *)
(* cleanup() of the same instance; every other method is one action.       *)
(*                                                                         *)
(*   Spec          ingest() with pause(), resume(), cleanup()              *)
(*   SpecTally     one ingest() call in which the calls after the tally of *)
(*                 a batch (progress.update, the logging call) may raise   *)
(*                 inside the try block of the batch loop as well          *)
(*   SpecStaging   transform_record, _store_pixeltable and cleanup() on    *)
(*                 the files of the staging directory                      *)
(*   SpecShared    SpecStaging with a second instance that stages and      *)
(*                 cleans up in the same directory                         *)
(*   SpecCalls     validate_source, _parse_json_conversations and          *)
(*                 _format_messages_as_text, each on its inputs            *)
(*   SpecProgress  the methods of IngestorProgress                         *)
(***************************************************************************)
EXTENDS Integers, Sequences, FiniteSets, TLC

(***************************************************************************)
(* Bounds of the model.                                                    *)
(***************************************************************************)
MaxRecords == 3      \* longest JSON array of conversations in a source
MaxBatchSize == 2    \* batch_size ranges over 1..MaxBatchSize
MaxRuns == 2         \* ingest() calls on the one pipeline instance

VARIABLES
    \* BaseIngestor.__init__
    batch_size, enable_progress_tracking, pixeltable_client,
    \* IngestorProgress (self.progress; meaningful iff enable_progress_tracking)
    total_items, processed_items, failed_items, status, errors,
    \* frame of the running ingest() call; source_path and validate_only are
    \* held until their last read, resume is never read
    pc, source_path, validate_only, records, i,
    processed_count, failed_count,
    \* frame of the running _process_batch() call
    batch, rec, processed, failed,
    \* what the last ingest() call handed to its caller
    result,
    \* observation of the run: operations invoked by the current/last call,
    \* batches whose processing raised, progress as it was when the call
    \* started, ingest() calls made, number of the batch of the running call
    \* inside which pause() was invoked with no resume() since (0: none)
    log, raised_batches, at_entry, runs, pause_point,
    \* a direct call of one method of the ingestor or of its progress object:
    \* the method, its argument, what it returned
    fn, arg, ret,
    \* the staging of documents: the wall clock in seconds, the files of the
    \* directory takeout_ingestor_docs, the records that transform_record has
    \* returned (in the order of the calls)
    clock, files, transformed

progress_vars == <<total_items, processed_items, failed_items, status, errors>>
frame_vars == <<source_path, validate_only, records, i,
                processed_count, failed_count>>
batch_vars == <<batch, rec, processed, failed>>
call_vars == <<fn, arg, ret>>
staging_vars == <<clock, files, transformed>>
ingest_vars == <<pc, source_path, validate_only, records, i,
                 processed_count, failed_count, batch, rec, processed, failed,
                 result, log, raised_batches, at_entry, runs, pause_point>>
vars == <<batch_size, enable_progress_tracking, pixeltable_client,
          total_items, processed_items, failed_items, status, errors,
          pc, source_path, validate_only, records, i,
          processed_count, failed_count, batch, rec, processed, failed,
          result, log, raised_batches, at_entry, runs, pause_point,
          fn, arg, ret, clock, files, transformed>>

(***************************************************************************)
(* Values.                                                                 *)
(***************************************************************************)
None == "None"

\* IngestorStatus
PENDING == "pending"
RUNNING == "running"
COMPLETED == "completed"
FAILED == "failed"
PAUSED == "paused"
IngestorStatus == {PENDING, RUNNING, COMPLETED, FAILED, PAUSED}

Min(a, b) == IF a < b THEN a ELSE b

\* Python slice seq[lo:hi] (0-based, hi exclusive, clipped to the length)
Slice(seq, lo, hi) == SubSeq(seq, lo + 1, Min(hi, Len(seq)))

\* range(n) as a list
RECURSIVE Range(_)
Range(n) == IF n = 0 THEN <<>> ELSE Append(Range(n - 1), n - 1)

(***************************************************************************)
(* Text.  A string is the sequence of its characters.                      *)
(***************************************************************************)
Letters == <<"a", "b", "c", "d", "e", "h", "i", "k", "l", "m",
             "n", "o", "r", "s", "t", "u", "v", "w", "y">>
Uppers == <<"A", "B", "C", "D", "E", "H", "I", "K", "L", "M",
            "N", "O", "R", "S", "T", "U", "V", "W", "Y">>

IsLower(c) == \E k \in 1..Len(Letters) : Letters[k] = c
IsUpper(c) == \E k \in 1..Len(Uppers) : Uppers[k] = c
IsCased(c) == IsLower(c) \/ IsUpper(c)

LowerChar(c) ==
    IF IsUpper(c) THEN Letters[CHOOSE k \in 1..Len(Uppers) : Uppers[k] = c] ELSE c
UpperChar(c) ==
    IF IsLower(c) THEN Uppers[CHOOSE k \in 1..Len(Letters) : Letters[k] = c] ELSE c

\* str.lower()
StrLower(s) == [k \in 1..Len(s) |-> LowerChar(s[k])]

\* str.title(): a cased character is put in upper case when no cased
\* character precedes it, in lower case otherwise
StrTitle(s) ==
    [k \in 1..Len(s) |-> IF k = 1 \/ ~IsCased(s[k - 1])
                           THEN UpperChar(s[k]) ELSE LowerChar(s[k])]

\* sep.join(parts)
RECURSIVE Join(_, _)
Join(parts, sep) ==
    IF Len(parts) = 0 THEN <<>>
    ELSE IF Len(parts) = 1 THEN parts[1]
    ELSE parts[1] \o sep \o Join(Tail(parts), sep)

\* str(n) for the numbers of the model
Digit(n) == <<"0", "1", "2", "3", "4", "5", "6", "7", "8", "9">>[n + 1]

(***************************************************************************)
(* Conversations and documents.  The value that json.loads returns for one *)
(* element of the export is either a mapping or something that is not a    *)
(* mapping.  The value of a key that holds a list or a text is Some(v), or  *)
(* Absent when the mapping has no such key; created_at is a text or None.  *)
(***************************************************************************)
MaxMessages == 2     \* longest list of messages of a conversation

Absent == <<>>
Some(v) == <<v>>

NotAMapping == [mapping |-> FALSE]

Conv(msgs, title, created, raw) ==
    [mapping |-> TRUE, messages |-> msgs, title |-> title,
     created_at |-> created, raw_content |-> raw]

Msg(role, content) == [role |-> role, content |-> content]

\* bool(x) of a timestamp text or None
Truthy(x) == x \notin {None, ""}

\* normalize_role with the role compared as it is, not in lower case
normalize_role_as_is(role) ==
    IF role \in {<<"h", "u", "m", "a", "n">>, <<"u", "s", "e", "r">>}
      THEN <<"H", "u", "m", "a", "n">>
    ELSE IF role \in {<<"a", "s", "s", "i", "s", "t", "a", "n", "t">>,
                      <<"c", "l", "a", "u", "d", "e">>}
      THEN <<"A", "s", "s", "i", "s", "t", "a", "n", "t">>
    ELSE role

\* ClaudeConversationIngestor._format_messages_as_text, "Normalize role
\* names", on the role that title() returned
normalize_role(role) ==
    IF StrLower(role) \in {<<"h", "u", "m", "a", "n">>, <<"u", "s", "e", "r">>}
      THEN <<"H", "u", "m", "a", "n">>
    ELSE IF StrLower(role) \in {<<"a", "s", "s", "i", "s", "t", "a", "n", "t">>,
                                <<"c", "l", "a", "u", "d", "e">>}
      THEN <<"A", "s", "s", "i", "s", "t", "a", "n", "t">>
    ELSE role

\* ClaudeConversationIngestor._format_messages_as_text, its loop
RECURSIVE text_parts(_)
text_parts(messages) ==
    IF Len(messages) = 0 THEN <<>>
    ELSE LET msg == messages[1]
             role == normalize_role(
                         StrTitle(IF msg.role = Absent
                                    THEN <<"u", "n", "k", "n", "o", "w", "n">>
                                    ELSE msg.role[1]))
             content == IF msg.content = Absent THEN <<>> ELSE msg.content[1]
         IN  <<role \o <<":", " ">> \o content>> \o text_parts(Tail(messages))

format_messages_as_text(messages) == Join(text_parts(messages), <<"\n", "\n">>)

\* f'Claude Conversation {index + 1}'
DefaultTitle(index) ==
    <<"C", "l", "a", "u", "d", "e", " ", "C", "o", "n", "v", "e", "r", "s",
      "a", "t", "i", "o", "n", " ", Digit(index + 1)>>

\* ClaudeConversationIngestor._extract_conversation_as_document at the time
\* now; the model leaves out source_file and updated_at
extract_conversation_as_document(conv_data, index, now) ==
    LET with_messages == conv_data.messages # Absent
        doc_text == IF with_messages
                      THEN format_messages_as_text(conv_data.messages[1])
                    ELSE IF conv_data.raw_content # Absent
                      THEN conv_data.raw_content[1]
                    ELSE <<"str(conv_data)">>
        title == IF with_messages /\ conv_data.title # Absent
                   THEN conv_data.title[1] ELSE DefaultTitle(index)
        created_at == IF with_messages THEN conv_data.created_at ELSE None
    IN  [document_text |-> doc_text,
         title |-> title,
         metadata |-> [source_type |-> "claude_conversation",
                       title |-> title,
                       conversation_index |-> index,
                       created_at |-> created_at,
                       parsed_at |-> now,
                       format |-> IF "format" \in DOMAIN conv_data
                                    THEN conv_data.format ELSE "json"]]

\* parse_json_conversations with every element taken for the first one
parse_json_conversations_unnumbered(data, now) ==
    IF \E k \in 1..Len(data) : ~data[k].mapping
      THEN [raised |-> TRUE, conversations |-> <<>>]
      ELSE [raised |-> FALSE,
            conversations |->
                [k \in 1..Len(data) |->
                    extract_conversation_as_document(data[k], 0, now)]]

\* ClaudeConversationIngestor._parse_json_conversations on the value that
\* json.loads returned for a list: an element that is not a mapping makes
\* _extract_conversation_as_document raise
parse_json_conversations(data, now) ==
    IF \E k \in 1..Len(data) : ~data[k].mapping
      THEN [raised |-> TRUE, conversations |-> <<>>]
      ELSE [raised |-> FALSE,
            conversations |->
                [k \in 1..Len(data) |->
                    extract_conversation_as_document(data[k], k - 1, now)]]

\* the lines of a text
RECURSIVE SplitLines(_)
SplitLines(s) ==
    IF \A k \in 1..Len(s) : s[k] # "\n"
      THEN <<s>>
      ELSE LET k == CHOOSE k \in 1..Len(s) :
                        s[k] = "\n" /\ \A j \in 1..(k - 1) : s[j] # "\n"
           IN  <<SubSeq(s, 1, k - 1)>> \o SplitLines(SubSeq(s, k + 1, Len(s)))

\* the conversation_data that _parse_text_conversations builds of a text
TextConv(raw) ==
    [mapping |-> TRUE, messages |-> Absent, title |-> Absent, created_at |-> None,
     raw_content |-> Some(raw), format |-> "text"]

\* parse_text_conversations with one conversation for each line of the text
parse_text_conversations_lines(content, now) ==
    LET lines == SplitLines(content)
    IN  [raised |-> FALSE,
         conversations |->
             [k \in 1..Len(lines) |->
                 extract_conversation_as_document(TextConv(lines[k]), k - 1, now)]]

\* ClaudeConversationIngestor._parse_text_conversations on the text of the
\* file: the whole text is the raw_content of one conversation
parse_text_conversations(content, now) ==
    [raised |-> FALSE,
     conversations |->
         <<extract_conversation_as_document(TextConv(content), 0, now)>>]

(***************************************************************************)
(* Source files.  A source is what the file system holds at source_path:   *)
(* whether the path exists, its suffix, whether read_text succeeds, and    *)
(* what json.loads makes of the content; stat_error: the stat of the path  *)
(* fails with an error that Path.exists() does not take for "missing"      *)
(* (name too long, no permission on a directory of the path).              *)
(***************************************************************************)
Suffixes == {".txt", ".json", ".JSON", ".csv"}

\* str.lower() on the suffixes of the model
Lower(s) == IF s = ".JSON" THEN ".json" ELSE s

\* content kinds: blank (empty after strip), text (not JSON), a JSON
\* object, a JSON array of n elements (bad: some element is not an object),
\* a JSON scalar
Src(e, sfx, rd, k, n, b) ==
    [exists |-> e, suffix |-> sfx, readable |-> rd, kind |-> k, n |-> n, bad |-> b,
     stat_error |-> FALSE]

\* a path that cannot be examined
Unstatable(src) == [src EXCEPT !.stat_error = TRUE]

Sources ==
    {Src(FALSE, sfx, FALSE, "text", 0, FALSE) : sfx \in {".json", ".csv"}}
    \cup {Src(TRUE, ".txt", FALSE, "text", 0, FALSE)}
    \cup {Src(TRUE, sfx, TRUE, k, 0, FALSE) :
            sfx \in {".txt", ".json", ".csv"}, k \in {"blank", "text"}}
    \cup {Src(TRUE, ".json", TRUE, k, 0, FALSE) : k \in {"object", "scalar"}}
    \cup {Src(TRUE, ".json", TRUE, "array", n, FALSE) : n \in 0..MaxRecords}
    \cup {Src(TRUE, sfx, TRUE, "array", 1, b) :
            sfx \in {".JSON", ".txt"}, b \in BOOLEAN}
    \cup {Unstatable(Src(TRUE, ".json", TRUE, "object", 0, FALSE))}

\* path.read_text(encoding='utf-8') of a source that can be read: a text
\* that json.loads takes for what the source's kind says
TextOf(src) ==
    IF src.kind = "blank" THEN <<" ", "\n">>
    ELSE IF src.kind = "text" THEN <<"h", "i", "\n", "\n", "y", "o">>
    ELSE IF src.kind = "object" THEN <<"{", "}">>
    ELSE IF src.kind = "scalar" THEN <<"1">>
    ELSE <<"[">>
         \o Join([k \in 1..src.n |-> IF src.bad THEN <<"1">> ELSE <<"{", "}">>],
                 <<",", "\n">>)
         \o <<"]">>

NoSource == Src(FALSE, "", FALSE, "blank", 0, FALSE)

\* the sources that the methods are called with directly
AllSources ==
    LET contents == {[kind |-> k, n |-> 0, bad |-> FALSE] :
                        k \in {"blank", "text", "object", "scalar"}}
                    \cup {[kind |-> "array", n |-> n, bad |-> b] :
                            n \in 0..MaxRecords, b \in BOOLEAN}
        statable == {Src(e, sfx, rd, c.kind, c.n, c.bad) :
                        e \in BOOLEAN, sfx \in Suffixes \cup {".md"},
                        rd \in BOOLEAN, c \in contents}
    IN  statable \cup {Unstatable(src) : src \in statable}

get_supported_formats == {".txt", ".json", ".md"}

\* ValidateSource without the check of the suffix
ValidateSourceAnySuffix(src) ==
    IF src.stat_error
      THEN [raised |-> TRUE, valid |-> FALSE, reason |-> None]
    ELSE IF ~src.exists
      THEN [raised |-> FALSE, valid |-> FALSE, reason |-> "Source path does not exist"]
    ELSE IF ~src.readable
      THEN [raised |-> FALSE, valid |-> FALSE, reason |-> "Error reading file"]
    ELSE IF src.kind = "blank"
      THEN [raised |-> FALSE, valid |-> FALSE, reason |-> "File is empty"]
    ELSE [raised |-> FALSE, valid |-> TRUE, reason |-> None]

\* ClaudeConversationIngestor.validate_source: what it returns, or that it
\* raised; path.exists() and the check of the suffix are outside its try block
ValidateSource(src) ==
    IF src.stat_error
      THEN [raised |-> TRUE, valid |-> FALSE, reason |-> None]
    ELSE IF ~src.exists
      THEN [raised |-> FALSE, valid |-> FALSE, reason |-> "Source path does not exist"]
    ELSE IF Lower(src.suffix) \notin get_supported_formats
      THEN [raised |-> FALSE, valid |-> FALSE, reason |-> "Unsupported file format"]
    ELSE IF ~src.readable
      THEN [raised |-> FALSE, valid |-> FALSE, reason |-> "Error reading file"]
    ELSE IF src.kind = "blank"
      THEN [raised |-> FALSE, valid |-> FALSE, reason |-> "File is empty"]
    ELSE IF Lower(src.suffix) = ".json" /\ src.kind \in {"object", "array"}
      THEN [raised |-> FALSE, valid |-> TRUE, reason |-> None]
    ELSE [raised |-> FALSE, valid |-> TRUE, reason |-> None]

\* what a parser returns: whether it raised, whether it logged "Invalid
\* JSON", the list of records
Parsed(raised, invalid_json, recs) ==
    [raised |-> raised, invalid_json |-> invalid_json, records |-> recs]

\* ParseJsonConversations without the except clause for JSONDecodeError
ParseJsonConversationsUncaught(src) ==
    IF src.kind \in {"blank", "text"}
      THEN Parsed(TRUE, FALSE, <<>>)
    ELSE IF src.kind = "array"
      THEN IF src.bad /\ src.n > 0
             THEN Parsed(TRUE, FALSE, <<>>)
             ELSE Parsed(FALSE, FALSE, Range(src.n))
    ELSE IF src.kind = "object"
      THEN Parsed(FALSE, FALSE, <<0>>)
    ELSE Parsed(FALSE, FALSE, <<>>)

\* ClaudeConversationIngestor._parse_json_conversations: the list of
\* records, each identified by its conversation_index
ParseJsonConversations(src) ==
    IF src.kind \in {"blank", "text"}
      THEN Parsed(FALSE, TRUE, <<>>)                   \* JSONDecodeError caught
    ELSE IF src.kind = "array"
      THEN IF src.bad /\ src.n > 0
             THEN Parsed(TRUE, FALSE, <<>>)            \* element is no mapping
             ELSE Parsed(FALSE, FALSE, Range(src.n))
    ELSE IF src.kind = "object"
      THEN Parsed(FALSE, FALSE, <<0>>)
    ELSE Parsed(FALSE, FALSE, <<>>)

\* ClaudeConversationIngestor._parse_text_conversations
ParseTextConversations(src) ==
    LET docs == parse_text_conversations(TextOf(src), 0).conversations
    IN  Parsed(FALSE, FALSE,
               [k \in 1..Len(docs) |-> docs[k].metadata.conversation_index])

\* ClaudeConversationIngestor.parse_source
ParseSource(src) ==
    IF src.stat_error \/ ~src.exists \/ ~src.readable
      THEN Parsed(TRUE, FALSE, <<>>)                   \* read_text raises
    ELSE IF Lower(src.suffix) = ".json"
      THEN ParseJsonConversations(src)
      ELSE ParseTextConversations(src)

(***************************************************************************)
(* Observation helpers.                                                    *)
(***************************************************************************)
\* an entry of the log: an operation that was invoked, or an exception that
\* was raised ("raise_<where>"), with the record it concerns (-1: none)
Ev(op, r) == [op |-> op, rec |-> r]

Ops(lg) == {lg[k].op : k \in 1..Len(lg)}

\* the operations on the document store
BackendOps == {"import_pixeltable", "ensure_schema", "get_table", "insert"}

\* a / b of Python: raises ZeroDivisionError when b is 0
TrueDiv(a, b) == [raised |-> b = 0, num |-> a, den |-> b]

\* 0.0
Zero == [raised |-> FALSE, num |-> 0, den |-> 1]

\* the "success_rate" of the summary of ingest(): the int 0 when nothing
\* was processed
summary_success_rate(n_processed, n_failed) ==
    IF n_processed > 0
      THEN TrueDiv((n_processed - n_failed) * 100, n_processed)
      ELSE Zero

NoResult ==
    [kind |-> "none", exc |-> None, message |-> None, total_records |-> 0, processed_records |-> 0,
     failed_records |-> 0, success_rate |-> Zero, record_count |-> 0,
     sample_record |-> -1, status |-> None]

EntrySnapshot ==
    [processed_items |-> processed_items, failed_items |-> failed_items,
     total_items |-> total_items, status |-> status, error_count |-> Len(errors)]

\* i // self.batch_size + 1
BatchNumber == (i \div batch_size) + 1

(***************************************************************************)
(* BaseIngestor.__init__ / IngestorProgress.__init__                       *)
(***************************************************************************)
Init ==
    /\ batch_size \in 1..MaxBatchSize
    /\ enable_progress_tracking \in BOOLEAN
    /\ pixeltable_client = None
    /\ total_items = 0
    /\ processed_items = 0
    /\ failed_items = 0
    /\ status = PENDING
    /\ errors = <<>>
    /\ pc = "idle"
    /\ source_path = NoSource
    /\ validate_only = FALSE
    /\ records = <<>>
    /\ i = 0
    /\ processed_count = 0
    /\ failed_count = 0
    /\ batch = <<>>
    /\ rec = 0
    /\ processed = 0
    /\ failed = 0
    /\ result = NoResult
    /\ log = <<>>
    /\ raised_batches = {}
    /\ at_entry = [processed_items |-> 0, failed_items |-> 0, total_items |-> 0,
                   status |-> PENDING, error_count |-> 0]
    /\ runs = 0
    /\ pause_point = 0
    /\ fn = None
    /\ arg = None
    /\ ret = None
    /\ clock = 0
    /\ files = {}
    /\ transformed = <<>>

\* the locals of ingest() and _process_batch() once the call has returned
DropFrame ==
    /\ source_path' = NoSource
    /\ validate_only' = FALSE
    /\ records' = <<>>
    /\ i' = 0
    /\ processed_count' = 0
    /\ failed_count' = 0
    /\ batch' = <<>>
    /\ rec' = 0
    /\ processed' = 0
    /\ failed' = 0


(***************************************************************************)
(* BaseIngestor.ingest, entry: the call and its arguments.                 *)
(***************************************************************************)
\* Ingest with a resume flag that skips the backend setup and the validation
IngestResumeSkipsChecks(src, res, vo) ==
    /\ pc = "idle"
    /\ runs < MaxRuns
    /\ pc' = IF res THEN "parse_source" ELSE "initialize_backend"
    /\ source_path' = src
    /\ validate_only' = vo
    /\ result' = NoResult
    /\ log' = <<>>
    /\ raised_batches' = {}
    /\ at_entry' = EntrySnapshot
    /\ runs' = runs + 1
    /\ pause_point' = 0
    /\ UNCHANGED <<batch_size, enable_progress_tracking, pixeltable_client,
                   progress_vars, records, i, processed_count, failed_count,
                   batch_vars>>
    /\ UNCHANGED <<call_vars, staging_vars>>

Ingest(src, res, vo) ==
    /\ pc = "idle"
    /\ runs < MaxRuns
    /\ pc' = "initialize_backend"
    /\ source_path' = src
    /\ validate_only' = vo
    /\ result' = NoResult
    /\ log' = <<>>
    /\ raised_batches' = {}
    /\ at_entry' = EntrySnapshot
    /\ runs' = runs + 1
    /\ pause_point' = 0
    /\ UNCHANGED <<batch_size, enable_progress_tracking, pixeltable_client,
                   progress_vars, records, i, processed_count, failed_count,
                   batch_vars>>
    /\ UNCHANGED <<call_vars, staging_vars>>

\* Fatal with the status assignment of the except clause left out
FatalKeepsStatus(exc, msg) ==
    /\ errors' = IF enable_progress_tracking THEN Append(errors, msg) ELSE errors
    /\ UNCHANGED <<total_items, processed_items, failed_items, status>>
    /\ result' = [NoResult EXCEPT !.kind = "raised", !.exc = exc, !.message = msg]
    /\ pc' = "idle"
    /\ DropFrame

\* BaseIngestor.ingest, the outer except clause: mark the progress failed,
\* record the error, re-raise to the caller
Fatal(exc, msg) ==
    /\ status' = IF enable_progress_tracking THEN FAILED ELSE status
    /\ errors' = IF enable_progress_tracking THEN Append(errors, msg) ELSE errors
    /\ UNCHANGED <<total_items, processed_items, failed_items>>
    /\ result' = [NoResult EXCEPT !.kind = "raised", !.exc = exc, !.message = msg]
    /\ pc' = "idle"
    /\ DropFrame

\* BaseIngestor.initialize_backend as called by ingest: the import of the
\* backend may fail, and so may the schema creation that follows it
InitializeBackend ==
    /\ pc = "initialize_backend"
    /\ \E outcome \in {"ok", "ImportError", "SchemaError"} :
         \/ /\ outcome = "ok"
            /\ pixeltable_client' = "pxt"
            /\ log' = log \o <<Ev("import_pixeltable", -1), Ev("ensure_schema", -1)>>
            /\ pc' = "validate_source"
            /\ UNCHANGED <<progress_vars, frame_vars, batch_vars, result>>
         \/ /\ outcome = "ImportError"
            /\ UNCHANGED pixeltable_client
            /\ log' = log \o <<Ev("import_pixeltable", -1),
                               Ev("raise_initialize_backend", -1)>>
            /\ Fatal("ImportError", "No module named pixeltable")
         \/ /\ outcome = "SchemaError"
            /\ pixeltable_client' = "pxt"
            /\ log' = log \o <<Ev("import_pixeltable", -1), Ev("ensure_schema", -1),
                               Ev("raise_initialize_backend", -1)>>
            /\ Fatal("SchemaError", "schema setup failed")
    /\ UNCHANGED <<batch_size, enable_progress_tracking, raised_batches,
                   at_entry, runs, pause_point>>
    /\ UNCHANGED <<call_vars, staging_vars>>

\* BaseIngestor.ingest, "Validate source": a negative answer raises
\* ValueError, an exception of validate_source reaches the except clause
ValidateSourceStep ==
    /\ pc = "validate_source"
    /\ LET v == ValidateSource(source_path)
       IN  IF v.raised
             THEN /\ log' = log \o <<Ev("validate_source", -1),
                                     Ev("raise_validation", -1)>>
                  /\ Fatal("OSError", "stat failed")
           ELSE IF v.valid
             THEN /\ log' = Append(log, Ev("validate_source", -1))
                  /\ pc' = "parse_source"
                  /\ UNCHANGED <<progress_vars, frame_vars, batch_vars, result>>
             ELSE /\ log' = log \o <<Ev("validate_source", -1),
                                     Ev("raise_validation", -1)>>
                  /\ Fatal("ValueError", v.reason)
    /\ UNCHANGED <<batch_size, enable_progress_tracking, pixeltable_client,
                   raised_batches, at_entry, runs, pause_point>>
    /\ UNCHANGED <<call_vars, staging_vars>>

\* BaseIngestor.ingest, "Parse source data" up to the validate_only return
ParseSourceStep ==
    /\ pc = "parse_source"
    /\ LET p == ParseSource(source_path)
       IN  IF p.raised
             THEN /\ log' = log \o <<Ev("parse_source", -1),
                                     Ev("raise_parse_source", -1)>>
                  /\ Fatal("ParseError", "parse_source raised")
             ELSE /\ log' = log \o <<Ev("parse_source", -1)>>
                                 \o (IF Lower(source_path.suffix) # ".json"
                                       THEN <<Ev("_parse_text_conversations", -1)>>
                                       ELSE <<>>)
                                 \o (IF p.invalid_json
                                       THEN <<Ev("invalid_json", -1)>> ELSE <<>>)
                  /\ total_items' = IF enable_progress_tracking
                                      THEN Len(p.records) ELSE total_items
                  /\ status' = IF enable_progress_tracking THEN RUNNING ELSE status
                  /\ UNCHANGED <<processed_items, failed_items, errors>>
                  /\ IF validate_only
                       THEN /\ result' = [NoResult EXCEPT
                                 !.kind = "validation",
                                 !.record_count = Len(p.records),
                                 !.sample_record = IF Len(p.records) > 0
                                                     THEN p.records[1] ELSE -1]
                            /\ pc' = "idle"
                            /\ DropFrame
                       ELSE /\ records' = p.records
                            /\ i' = 0
                            /\ processed_count' = 0
                            /\ failed_count' = 0
                            /\ pc' = "loop"
                            /\ source_path' = NoSource
                            /\ validate_only' = FALSE
                            /\ UNCHANGED <<batch_vars, result>>
    /\ UNCHANGED <<batch_size, enable_progress_tracking, pixeltable_client,
                   raised_batches, at_entry, runs, pause_point>>
    /\ UNCHANGED <<call_vars, staging_vars>>

\* NextBatch with a slice that starts one record early
NextBatchOverlapping ==
    /\ pc = "loop"
    /\ i < Len(records)
    /\ batch' = Slice(records, IF i > 0 THEN i - 1 ELSE 0, i + batch_size)
    /\ rec' = 0
    /\ processed' = 0
    /\ failed' = 0
    /\ pc' = "process_batch"
    /\ log' = Append(log, Ev("process_batch", BatchNumber))
    /\ UNCHANGED <<batch_size, enable_progress_tracking, pixeltable_client,
                   progress_vars, frame_vars, result, raised_batches,
                   at_entry, runs, pause_point>>
    /\ UNCHANGED <<call_vars, staging_vars>>

\* BaseIngestor.ingest, head of the batch loop: the next slice of records
\* is handed to _process_batch
NextBatch ==
    /\ pc = "loop"
    /\ i < Len(records)
    /\ batch' = Slice(records, i, i + batch_size)
    /\ rec' = 0
    /\ processed' = 0
    /\ failed' = 0
    /\ pc' = "process_batch"
    /\ log' = Append(log, Ev("process_batch", BatchNumber))
    /\ UNCHANGED <<batch_size, enable_progress_tracking, pixeltable_client,
                   progress_vars, frame_vars, result, raised_batches,
                   at_entry, runs, pause_point>>
    /\ UNCHANGED <<call_vars, staging_vars>>

\* ClaudeConversationIngestor._store_pixeltable as the log sees it: get_table
\* fails on a client that cleanup() has unset, else the insert runs and may fail
StoreOps(r, outcome) ==
    IF pixeltable_client = None
      THEN <<Ev("store", r), Ev("raise_store", r)>>
    ELSE IF outcome = "store_error"
      THEN <<Ev("store", r), Ev("get_table", r), Ev("insert", r), Ev("raise_store", r)>>
    ELSE <<Ev("store", r), Ev("get_table", r), Ev("insert", r)>>

\* RecordFailed with a failure ending the loop over the batch
RecordFailedAbortsBatch ==
    /\ failed' = failed + 1
    /\ errors' = IF enable_progress_tracking
                   THEN Append(errors, "Record processing") ELSE errors
    /\ UNCHANGED processed
    /\ rec' = Len(batch)

\* BaseIngestor._process_batch, the except clause of its loop: log the error,
\* count the record as failed, go on with the next record
RecordFailed ==
    /\ failed' = failed + 1
    /\ errors' = IF enable_progress_tracking
                   THEN Append(errors, "Record processing") ELSE errors
    /\ UNCHANGED processed
    /\ rec' = rec + 1

\* BaseIngestor._process_batch, the end of the try block of its loop
RecordStored ==
    /\ processed' = processed + 1
    /\ UNCHANGED <<failed, errors>>
    /\ rec' = rec + 1

\* BaseIngestor._process_batch, one iteration of its loop: transform_record,
\* then _store_pixeltable, either of which may raise
ProcessRecord ==
    /\ pc = "process_batch"
    /\ rec < Len(batch)
    /\ \E outcome \in {"ok", "transform_error", "store_error"} :
         LET r == batch[rec + 1]
         IN  /\ log' = log \o (IF outcome = "transform_error"
                                 THEN <<Ev("transform_record", r),
                                        Ev("raise_transform_record", r)>>
                                 ELSE <<Ev("transform_record", r)>> \o StoreOps(r, outcome))
             /\ IF outcome = "ok" /\ pixeltable_client # None
                  THEN RecordStored
                  ELSE RecordFailed
    /\ UNCHANGED <<batch_size, enable_progress_tracking, pixeltable_client,
                   total_items, processed_items, failed_items, status,
                   pc, frame_vars, batch, result, raised_batches,
                   at_entry, runs, pause_point>>
    /\ UNCHANGED <<call_vars, staging_vars>>

\* BaseIngestor.ingest, body of the batch loop after _process_batch returned:
\* tally the batch and update the progress (IngestorProgress.update)
ReturnBatch ==
    /\ pc = "process_batch"
    /\ rec = Len(batch)
    /\ processed_count' = processed_count + processed
    /\ failed_count' = failed_count + failed
    /\ processed_items' = IF enable_progress_tracking
                            THEN processed_items + processed ELSE processed_items
    /\ failed_items' = IF enable_progress_tracking
                         THEN failed_items + failed ELSE failed_items
    /\ i' = i + batch_size
    /\ pc' = "loop"
    /\ batch' = <<>>
    /\ rec' = 0
    /\ processed' = 0
    /\ failed' = 0
    /\ UNCHANGED <<batch_size, enable_progress_tracking, pixeltable_client,
                   total_items, status, errors, source_path, validate_only,
                   records, result, log, raised_batches, at_entry, runs,
                   pause_point>>
    /\ UNCHANGED <<call_vars, staging_vars>>

\* BatchRaise without the try block around the batch: the exception reaches
\* the outer except clause of ingest
BatchRaisePropagates ==
    /\ pc = "process_batch"
    /\ rec < Len(batch)
    /\ log' = Append(log, Ev("raise_process_batch", BatchNumber))
    /\ raised_batches' = raised_batches \cup {BatchNumber}
    /\ Fatal("BatchError", "Batch")
    /\ UNCHANGED <<batch_size, enable_progress_tracking, pixeltable_client,
                   at_entry, runs, pause_point>>
    /\ UNCHANGED <<call_vars, staging_vars>>

\* BaseIngestor.ingest, the except clause of the batch loop: an exception
\* leaves _process_batch before it has handled all its records (its own
\* except clause raises, or an overriding _process_batch does); the counts of
\* the batch are lost, the whole batch is counted as failed in failed_count
\* and the loop goes on
BatchRaise ==
    /\ pc = "process_batch"
    /\ rec < Len(batch)
    /\ log' = Append(log, Ev("raise_process_batch", BatchNumber))
    /\ errors' = IF enable_progress_tracking THEN Append(errors, "Batch") ELSE errors
    /\ failed_count' = failed_count + Len(batch)
    /\ raised_batches' = raised_batches \cup {BatchNumber}
    /\ i' = i + batch_size
    /\ pc' = "loop"
    /\ batch' = <<>>
    /\ rec' = 0
    /\ processed' = 0
    /\ failed' = 0
    /\ UNCHANGED <<batch_size, enable_progress_tracking, pixeltable_client,
                   total_items, processed_items, failed_items, status,
                   source_path, validate_only, records,
                   processed_count, result, at_entry, runs, pause_point>>
    /\ UNCHANGED <<call_vars, staging_vars>>

\* BaseIngestor.ingest, the except clause of the batch loop reached after
\* the tally: _process_batch has returned and its counts were added, then
\* progress.update or the logging call that follows raises inside the same
\* try block (updated: the progress counters had been advanced by then);
\* the whole batch is added to failed_count once more
BatchRaiseAfterTally ==
    /\ pc = "process_batch"
    /\ rec = Len(batch)
    /\ \E updated \in BOOLEAN :
         /\ processed_items' = IF enable_progress_tracking /\ updated
                                 THEN processed_items + processed
                                 ELSE processed_items
         /\ failed_items' = IF enable_progress_tracking /\ updated
                              THEN failed_items + failed ELSE failed_items
    /\ log' = Append(log, Ev("raise_process_batch", BatchNumber))
    /\ errors' = IF enable_progress_tracking THEN Append(errors, "Batch") ELSE errors
    /\ processed_count' = processed_count + processed
    /\ failed_count' = failed_count + failed + Len(batch)
    /\ raised_batches' = raised_batches \cup {BatchNumber}
    /\ i' = i + batch_size
    /\ pc' = "loop"
    /\ batch' = <<>>
    /\ rec' = 0
    /\ processed' = 0
    /\ failed' = 0
    /\ UNCHANGED <<batch_size, enable_progress_tracking, pixeltable_client,
                   total_items, status, source_path, validate_only, records,
                   result, at_entry, runs, pause_point>>
    /\ UNCHANGED <<call_vars, staging_vars>>

\* BaseIngestor.ingest, "Update final status" and the summary
Finish ==
    /\ pc = "loop"
    /\ i >= Len(records)
    /\ status' = IF enable_progress_tracking
                   THEN (IF failed_count = 0 THEN COMPLETED ELSE FAILED)
                   ELSE status
    /\ result' = [NoResult EXCEPT
                    !.kind = "summary",
                    !.total_records = Len(records),
                    !.processed_records = processed_count,
                    !.failed_records = failed_count,
                    !.success_rate = summary_success_rate(processed_count,
                                                          failed_count),
                    !.status = IF enable_progress_tracking THEN status' ELSE None]
    /\ pc' = "idle"
    /\ DropFrame
    /\ pause_point' = 0
    /\ UNCHANGED <<batch_size, enable_progress_tracking, pixeltable_client,
                   total_items, processed_items, failed_items, errors,
                   log, raised_batches, at_entry, runs>>
    /\ UNCHANGED <<call_vars, staging_vars>>

\* Pause with the error log cleared
PauseClearsErrors ==
    /\ status' = IF enable_progress_tracking THEN PAUSED ELSE status
    /\ errors' = <<>>
    /\ pause_point' = IF pc = "process_batch" THEN BatchNumber ELSE pause_point
    /\ UNCHANGED <<batch_size, enable_progress_tracking, pixeltable_client,
                   total_items, processed_items, failed_items,
                   pc, frame_vars, batch_vars, result, log, raised_batches,
                   at_entry, runs>>
    /\ UNCHANGED <<call_vars, staging_vars>>

\* BaseIngestor.pause
Pause ==
    /\ status' = IF enable_progress_tracking THEN PAUSED ELSE status
    /\ pause_point' = IF pc = "process_batch" THEN BatchNumber ELSE pause_point
    /\ UNCHANGED <<batch_size, enable_progress_tracking, pixeltable_client,
                   total_items, processed_items, failed_items, errors,
                   pc, frame_vars, batch_vars, result, log, raised_batches,
                   at_entry, runs>>
    /\ UNCHANGED <<call_vars, staging_vars>>

\* BaseIngestor.resume
Resume ==
    /\ status' = IF enable_progress_tracking THEN RUNNING ELSE status
    /\ pause_point' = 0
    /\ UNCHANGED <<batch_size, enable_progress_tracking, pixeltable_client,
                   total_items, processed_items, failed_items, errors,
                   pc, frame_vars, batch_vars, result, log, raised_batches,
                   at_entry, runs>>
    /\ UNCHANGED <<call_vars, staging_vars>>

\* ClaudeConversationIngestor.cleanup: BaseIngestor.cleanup unsets the client,
\* then the staging directory is removed with all its files; a failure of the
\* removal is logged and leaves the files
cleanup_keeps_client(client, fs, removed) ==
    [raised |-> FALSE,
     pixeltable_client |-> IF fs = {} THEN client ELSE None,
     files |-> IF removed THEN {} ELSE fs]

\* what one call of cleanup() leaves of the client and of the staged files;
\* removed tells whether shutil.rmtree succeeded (an absent directory is
\* skipped, which leaves no files as well); the call has no raise of its own
cleanup(client, fs, removed) ==
    [raised |-> FALSE,
     pixeltable_client |-> None,
     files |-> IF removed THEN {} ELSE fs]

Cleanup ==
    /\ \E removed \in BOOLEAN :
         LET after == cleanup(pixeltable_client, files, removed)
         IN  /\ pixeltable_client' = after.pixeltable_client
             /\ files' = after.files
    /\ UNCHANGED <<batch_size, enable_progress_tracking, progress_vars,
                   pc, frame_vars, batch_vars, result, log, raised_batches,
                   at_entry, runs, pause_point, call_vars, clock, transformed>>

Next ==
    \/ \E src \in Sources, res \in BOOLEAN, vo \in BOOLEAN : Ingest(src, res, vo)
    \/ InitializeBackend
    \/ ValidateSourceStep
    \/ ParseSourceStep
    \/ NextBatch
    \/ ProcessRecord
    \/ ReturnBatch
    \/ BatchRaise
    \/ Finish
    \/ Pause
    \/ Resume
    \/ Cleanup

Spec == Init /\ [][Next]_vars

\* one ingest() call on a new instance, in which the statements between the
\* tally and the end of the try block of the batch loop may raise as well
NextTally ==
    \/ \E src \in Sources, res \in BOOLEAN, vo \in BOOLEAN :
          runs = 0 /\ Ingest(src, res, vo)
    \/ InitializeBackend
    \/ ValidateSourceStep
    \/ ParseSourceStep
    \/ NextBatch
    \/ ProcessRecord
    \/ ReturnBatch
    \/ BatchRaise
    \/ BatchRaiseAfterTally
    \/ Finish
    \/ Pause
    \/ Resume
    \/ Cleanup

SpecTally == Init /\ [][NextTally]_vars

TypeOK ==
    /\ batch_size \in 1..MaxBatchSize
    /\ enable_progress_tracking \in BOOLEAN
    /\ pixeltable_client \in {None, "pxt"}
    /\ total_items \in Nat /\ processed_items \in Nat /\ failed_items \in Nat
    /\ status \in IngestorStatus
    /\ pc \in {"idle", "initialize_backend", "validate_source", "parse_source",
               "loop", "process_batch"}
    /\ rec \in 0..Len(batch)
    /\ result.kind \in {"none", "raised", "validation", "summary"}
    /\ pause_point \in 0..MaxRecords


(***************************************************************************)
(* Staging of documents: transform_record writes the document to a file of *)
(* the directory takeout_ingestor_docs, _store_pixeltable hands the file   *)
(* to the backend and removes it.                                          *)
(***************************************************************************)
MaxClock == 1        \* seconds that pass on the wall clock
MaxStaged == 2       \* records returned by transform_record and not yet stored

\* \w of the regular expressions, on the characters of the model
IsWordChar(c) ==
    IsCased(c) \/ c = "_" \/ c \in {Digit(n) : n \in 0..9}

\* re.sub(r'[^\w\-_\.]', '_', title)[:50]
safe_title(title) ==
    Slice([k \in 1..Len(title) |->
             IF IsWordChar(title[k]) \/ title[k] \in {"-", "_", "."}
               THEN title[k] ELSE "_"], 0, 50)

\* temp_dir / f"claude_conv_{timestamp}_{safe_title}.txt", the timestamp
\* being the time now cut to the second
temp_file_name(title, now) == [timestamp |-> now, safe_title |-> safe_title(title)]

\* what ClaudeConversationIngestor._create_temp_document writes
temp_file_content(text, title, metadata) ==
    [Title |-> title,
     Source |-> metadata.source_type,
     Created |-> IF Truthy(metadata.created_at) THEN metadata.created_at ELSE None,
     Parsed |-> metadata.parsed_at,
     body |-> text]

Paths(fs) == {f.path : f \in fs}

\* open(temp_file, 'w') and the writes: a file of that name is replaced
WriteFile(fs, path, content) ==
    {f \in fs : f.path # path} \cup {[path |-> path, content |-> content]}

\* ClaudeConversationIngestor.transform_record: the record it returns
transform_record(record, now) ==
    [pdf_file |-> temp_file_name(record.title, now),
     document_metadata |-> record.metadata,
     ingested_at |-> now,
     _temp_file_path |-> temp_file_name(record.title, now)]

\* the canonical records handed to transform_record
StagingConvs ==
    {Conv(Some(<<Msg(Some(<<"u", "s", "e", "r">>), Some(<<"h", "i">>))>>),
          Absent, None, Absent),
     Conv(Some(<<Msg(Some(<<"C", "l", "a", "u", "d", "e">>), Some(<<"o", "k">>))>>),
          Some(<<"a", " ", "b">>), "2024-05-01", Absent)}

StagingRecords == {extract_conversation_as_document(c, 0, 0) : c \in StagingConvs}

\* a direct call of BaseIngestor.initialize_backend
InitializeBackendCall ==
    /\ pc = "idle"
    /\ \E outcome \in {"ok", "ImportError", "SchemaError"} :
         /\ pixeltable_client' = IF outcome = "ImportError"
                                   THEN pixeltable_client ELSE "pxt"
         /\ fn' = "initialize_backend"
         /\ arg' = None
         /\ ret' = [raised |-> outcome # "ok"]
    /\ UNCHANGED <<batch_size, enable_progress_tracking, progress_vars,
                   ingest_vars, staging_vars>>

\* the wall clock reaches the next second
Tick ==
    /\ clock < MaxClock
    /\ clock' = clock + 1
    /\ UNCHANGED <<batch_size, enable_progress_tracking, pixeltable_client,
                   progress_vars, ingest_vars, call_vars, files, transformed>>

\* ClaudeConversationIngestor.transform_record with _create_temp_document
TransformRecord(record) ==
    /\ pc = "idle"
    /\ Len(transformed) < MaxStaged
    /\ files' = WriteFile(files, temp_file_name(record.title, clock),
                          temp_file_content(record.document_text, record.title,
                                            record.metadata))
    /\ transformed' = Append(transformed,
                             [record |-> record,
                              returned |-> transform_record(record, clock)])
    /\ fn' = "transform_record"
    /\ arg' = record
    /\ ret' = [raised |-> FALSE, value |-> transform_record(record, clock)]
    /\ UNCHANGED <<batch_size, enable_progress_tracking, pixeltable_client,
                   progress_vars, ingest_vars, clock>>

\* the characters of the keys of a transformed record
KeyText ==
    [pdf_file |-> <<"p", "d", "f", "_", "f", "i", "l", "e">>,
     document_metadata |-> <<"d", "o", "c", "u", "m", "e", "n", "t", "_",
                             "m", "e", "t", "a", "d", "a", "t", "a">>,
     ingested_at |-> <<"i", "n", "g", "e", "s", "t", "e", "d", "_", "a", "t">>,
     _temp_file_path |-> <<"_", "t", "e", "m", "p", "_", "f", "i", "l", "e",
                           "_", "p", "a", "t", "h">>]

\* k.startswith(prefix) for a prefix of one character
startswith(k, prefix) == Len(KeyText[k]) > 0 /\ KeyText[k][1] = prefix

\* store_record with every key of the record kept
store_record_unfiltered(record) == record

\* {k: v for k, v in record.items() if not k.startswith('_')}
store_record(record) ==
    [k \in {key \in DOMAIN record : ~startswith(key, "_")} |-> record[k]]

\* ClaudeConversationIngestor._store_pixeltable on the k-th record that
\* transform_record returned: get_table fails on a client that is not set,
\* the insert may raise, and so may the unlink (which is logged only);
\* insert_args: the mappings that table.insert was called with
StorePixeltable(k, outcome) ==
    /\ pc = "idle"
    /\ k \in 1..Len(transformed)
    /\ LET record == transformed[k].returned
           inserted == pixeltable_client # None /\ outcome # "insert_error"
           unlinked == /\ inserted
                       /\ record._temp_file_path \in Paths(files)
                       /\ outcome # "unlink_error"
       IN  /\ files' = IF unlinked
                         THEN {f \in files : f.path # record._temp_file_path}
                         ELSE files
           /\ fn' = "_store_pixeltable"
           /\ arg' = record
           /\ ret' = [raised |-> ~inserted, inserted |-> inserted,
                       insert_args |-> IF pixeltable_client # None
                                         THEN <<store_record(record)>> ELSE <<>>]
    /\ transformed' = [j \in 1..(Len(transformed) - 1) |->
                         IF j < k THEN transformed[j] ELSE transformed[j + 1]]
    /\ UNCHANGED <<batch_size, enable_progress_tracking, pixeltable_client,
                   progress_vars, ingest_vars, clock>>

NextStaging ==
    \/ InitializeBackendCall
    \/ Tick
    \/ \E record \in StagingRecords : TransformRecord(record)
    \/ \E k \in 1..MaxStaged, outcome \in {"ok", "insert_error", "unlink_error"} :
          StorePixeltable(k, outcome)
    \/ Cleanup

SpecStaging == Init /\ [][NextStaging]_vars

\* transform_record of a second instance of ClaudeConversationIngestor:
\* its _create_temp_document writes to the same directory
\* tempfile.gettempdir()/takeout_ingestor_docs under a name made the same way
OtherTransformRecord(record) ==
    /\ pc = "idle"
    /\ files' = WriteFile(files, temp_file_name(record.title, clock),
                          temp_file_content(record.document_text, record.title,
                                            record.metadata))
    /\ fn' = "other.transform_record"
    /\ arg' = record
    /\ ret' = [raised |-> FALSE, value |-> transform_record(record, clock)]
    /\ UNCHANGED <<batch_size, enable_progress_tracking, pixeltable_client,
                   progress_vars, ingest_vars, clock, transformed>>

\* cleanup() of the second instance: it unsets the second instance's own
\* client and removes the same directory
OtherCleanup ==
    /\ pc = "idle"
    /\ \E removed \in BOOLEAN :
         files' = cleanup(None, files, removed).files
    /\ fn' = "other.cleanup"
    /\ arg' = None
    /\ ret' = [raised |-> FALSE]
    /\ UNCHANGED <<batch_size, enable_progress_tracking, pixeltable_client,
                   progress_vars, ingest_vars, clock, transformed>>

\* two instances at work on the same machine
NextShared ==
    \/ NextStaging
    \/ \E record \in StagingRecords : OtherTransformRecord(record)
    \/ OtherCleanup

SpecShared == Init /\ [][NextShared]_vars

(***************************************************************************)
(* Direct calls of the methods of ClaudeConversationIngestor, on an         *)
(* instance that is not inside ingest(): one call on a new instance.       *)
(***************************************************************************)
SeqsUpTo(S, n) == UNION {[1..k -> S] : k \in 0..n}

\* the roles and contents of the messages the methods are called with
RoleTexts ==
    {<<"h", "u", "m", "a", "n">>, <<"U", "s", "e", "r">>,
     <<"H", "U", "M", "A", "N">>,
     <<"a", "s", "s", "i", "s", "t", "a", "n", "t">>,
     <<"C", "l", "a", "u", "d", "e">>,
     <<"A", "S", "S", "I", "S", "T", "A", "N", "T">>,
     <<"s", "y", "s", "t", "e", "m">>,
     <<"t", "o", "o", "l", "_", "u", "s", "e">>}

Messages ==
    {Msg(role, Some(<<"h", "i">>)) : role \in {Absent} \cup {Some(r) : r \in RoleTexts}}
    \cup {Msg(Some(<<"t", "o", "o", "l", "_", "u", "s", "e">>), Absent)}

\* the elements of the JSON lists the parser is called with
Elements ==
    StagingConvs
    \cup {Conv(Absent, Absent, None, Some(<<"r", "a", "w">>)), NotAMapping}

\* validate_source(source_path)
CallValidateSource(src) ==
    /\ pc = "idle"
    /\ fn = None
    /\ fn' = "validate_source"
    /\ arg' = src
    /\ ret' = ValidateSource(src)
    /\ UNCHANGED <<batch_size, enable_progress_tracking, pixeltable_client,
                   progress_vars, ingest_vars, staging_vars>>

\* _parse_json_conversations(content, source_path), content being the text
\* of the JSON list data
CallParseJsonConversations(data) ==
    /\ pc = "idle"
    /\ fn = None
    /\ fn' = "_parse_json_conversations"
    /\ arg' = data
    /\ ret' = parse_json_conversations(data, clock)
    /\ UNCHANGED <<batch_size, enable_progress_tracking, pixeltable_client,
                   progress_vars, ingest_vars, staging_vars>>

\* _format_messages_as_text(messages)
CallFormatMessagesAsText(messages) ==
    /\ pc = "idle"
    /\ fn = None
    /\ fn' = "_format_messages_as_text"
    /\ arg' = messages
    /\ ret' = [raised |-> FALSE, value |-> format_messages_as_text(messages)]
    /\ UNCHANGED <<batch_size, enable_progress_tracking, pixeltable_client,
                   progress_vars, ingest_vars, staging_vars>>

NextCalls ==
    \/ \E src \in AllSources : CallValidateSource(src)
    \/ \E data \in SeqsUpTo(Elements, MaxRecords) : CallParseJsonConversations(data)
    \/ \E messages \in SeqsUpTo(Messages, MaxMessages) :
          CallFormatMessagesAsText(messages)

SpecCalls == Init /\ [][NextCalls]_vars

(***************************************************************************)
(* IngestorProgress, called directly: the progress object of an instance    *)
(* that is not inside ingest().  A float is the exact fraction num/den;    *)
(* the time stamp that add_error puts before the message is left out.      *)
(***************************************************************************)
MaxItems == 3        \* largest value of a counter of the progress
MaxErrors == 6       \* add_error calls

Max(a, b) == IF a > b THEN a ELSE b

\* Python slice seq[lo:] (a negative lo counts from the end)
SliceFrom(seq, lo) ==
    SubSeq(seq, (IF lo < 0 THEN Max(Len(seq) + lo, 0) ELSE lo) + 1, Len(seq))

\* completion_percentage without the test of total_items
completion_percentage_unguarded == TrueDiv(processed_items * 100, total_items)

\* IngestorProgress.completion_percentage
completion_percentage ==
    IF total_items = 0 THEN Zero ELSE TrueDiv(processed_items * 100, total_items)

\* IngestorProgress.success_rate
success_rate ==
    IF processed_items = 0
      THEN Zero
      ELSE TrueDiv((processed_items - failed_items) * 100, processed_items)

\* recent_errors taken from the front of the list
recent_errors_oldest == Slice(errors, 0, 5)

\* self.errors[-5:]
recent_errors == SliceFrom(errors, -5)

\* IngestorProgress.to_dict; the model leaves out the times and the metadata
to_dict ==
    [total_items |-> total_items,
     processed_items |-> processed_items,
     failed_items |-> failed_items,
     completion_percentage |-> completion_percentage,
     success_rate |-> success_rate,
     status |-> status,
     error_count |-> Len(errors),
     recent_errors |-> recent_errors]

\* self.progress.total_items = n
SetTotalItems(n) ==
    /\ pc = "idle"
    /\ enable_progress_tracking
    /\ total_items' = n
    /\ fn' = "total_items"
    /\ arg' = n
    /\ ret' = None
    /\ UNCHANGED <<batch_size, enable_progress_tracking, pixeltable_client,
                   processed_items, failed_items, status, errors,
                   ingest_vars, staging_vars>>

\* IngestorProgress.update(processed, failed)
ProgressUpdate(p, f) ==
    /\ pc = "idle"
    /\ enable_progress_tracking
    /\ processed_items + p <= MaxItems
    /\ failed_items + f <= MaxItems
    /\ processed_items' = processed_items + p
    /\ failed_items' = failed_items + f
    /\ fn' = "update"
    /\ arg' = [processed |-> p, failed |-> f]
    /\ ret' = None
    /\ UNCHANGED <<batch_size, enable_progress_tracking, pixeltable_client,
                   total_items, status, errors, ingest_vars, staging_vars>>

\* IngestorProgress.add_error(error)
AddError(error) ==
    /\ pc = "idle"
    /\ enable_progress_tracking
    /\ Len(errors) < MaxErrors
    /\ errors' = Append(errors, error)
    /\ fn' = "add_error"
    /\ arg' = error
    /\ ret' = None
    /\ UNCHANGED <<batch_size, enable_progress_tracking, pixeltable_client,
                   total_items, processed_items, failed_items, status,
                   ingest_vars, staging_vars>>

\* BaseIngestor.get_progress: the serialized progress
GetProgress ==
    /\ pc = "idle"
    /\ enable_progress_tracking
    /\ fn' = "get_progress"
    /\ arg' = None
    /\ ret' = to_dict
    /\ UNCHANGED <<batch_size, enable_progress_tracking, pixeltable_client,
                   progress_vars, ingest_vars, staging_vars>>

NextProgress ==
    \/ \E n \in 0..MaxItems : SetTotalItems(n)
    \/ \E p \in 0..1, f \in 0..1 : ProgressUpdate(p, f)
    \/ \E error \in {"Record processing", "Batch"} : AddError(error)
    \/ GetProgress

SpecProgress == Init /\ [][NextProgress]_vars

(***************************************************************************)
(* Properties.                                                             *)
(***************************************************************************)
Last(lg) == lg[Len(lg)]

HasEv(lg, op, r) == \E k \in 1..Len(lg) : lg[k] = Ev(op, r)

\* the step on which ingest() hands a result of this kind to its caller
Returns(kind) == pc # "idle" /\ pc' = "idle" /\ result'.kind = kind

\* number of batches of n records
NumBatches(n) == (n + batch_size - 1) \div batch_size

\* C1: when the processing of a batch raises, ingest() does not propagate the
\* exception, every batch of the record list is still handed to
\* _process_batch, and the call ends with a summary and a terminal status
\* (Completed or Failed).
BatchFailureIsolation ==
    raised_batches # {} =>
        /\ result.kind # "raised"
        /\ pc = "idle" =>
             /\ result.kind = "summary"
             /\ \A k \in 1..NumBatches(result.total_records) :
                    HasEv(log, "process_batch", k)
             /\ enable_progress_tracking => result.status \in {COMPLETED, FAILED}

\* C1 witness: three batches of one record, the second raises, the first and
\* the third succeed, and the summary is returned
BatchFailureIsolationWitness ==
    /\ pc = "idle"
    /\ result.kind = "summary"
    /\ batch_size = 1
    /\ result.total_records = 3
    /\ raised_batches = {2}
    /\ result.processed_records = 2
    /\ result.failed_records = 1
    /\ HasEv(log, "insert", 2)
    /\ result.status = FAILED

\* C2: after a run in which a whole batch raised, the progress counters
\* account for it: failed_items grew by the size of the raising batches plus
\* the per-record failures of the other batches (the summary's failed
\* records), processed_items by the records that succeeded in the others.
BatchFailureCountedInProgress ==
    (pc = "idle" /\ result.kind = "summary" /\ enable_progress_tracking
       /\ raised_batches # {}) =>
        /\ failed_items = at_entry.failed_items + result.failed_records
        /\ processed_items = at_entry.processed_items + result.processed_records

\* an exception of transform_record or of the store call was raised on this step
RecordRaised ==
    /\ Len(log') > Len(log)
    /\ Last(log').op \in {"raise_transform_record", "raise_store"}

\* C3: an exception raised by transform_record or by the store call of a
\* record is caught inside _process_batch: it adds one entry to the error
\* log, counts the record as failed and goes on with the next record of the
\* batch; when _process_batch returns, every record of the batch has been
\* attempted and processed + failed is the size of the batch.
PerRecordIsolation ==
    [][ /\ RecordRaised =>
             /\ pc' = "process_batch"
             /\ batch' = batch
             /\ rec' = rec + 1
             /\ failed' = failed + 1
             /\ processed' = processed
             /\ raised_batches' = raised_batches
             /\ enable_progress_tracking =>
                    errors' = Append(errors, "Record processing")
        /\ (pc = "process_batch" /\ pc' = "loop"
              /\ raised_batches' = raised_batches) =>
             /\ processed + failed = Len(batch)
             /\ processed_count' + failed_count'
                  = processed_count + failed_count + Len(batch)
             /\ \A k \in 1..Len(batch) : HasEv(log, "transform_record", batch[k])
      ]_vars

\* C3 witness: a batch of two records whose first record failed in the store
\* call and whose second record was stored has returned
PerRecordIsolationWitness ==
    /\ pc = "loop"
    /\ batch_size = 2
    /\ i = 2
    /\ HasEv(log, "raise_store", 0)
    /\ HasEv(log, "insert", 1)
    /\ ~HasEv(log, "raise_store", 1)
    /\ processed_count = 1
    /\ failed_count = 1
    /\ raised_batches = {}
    /\ Len(errors) = at_entry.error_count + 1

\* C4: whenever ingest() returns a summary, the status it has set is Completed
\* if and only if ProgressState.failed_items is 0, and Failed otherwise.
TerminalStatusRule ==
    (pc = "idle" /\ result.kind = "summary" /\ enable_progress_tracking) =>
        /\ result.status \in {COMPLETED, FAILED}
        /\ (result.status = COMPLETED) <=> (failed_items = 0)

\* the path does not exist, or its extension is not a supported one
BadPath(src) == ~src.exists \/ Lower(src.suffix) \notin get_supported_formats

FatalCause ==
    /\ Len(log') > Len(log)
    /\ Last(log').op \in {"raise_initialize_backend", "raise_validation",
                          "raise_parse_source"}

\* C6: if backend initialization raises, validation returns false or
\* parse_source raises, ingest() raises to its caller without a summary, sets
\* the status to Failed, appends exactly one message to the error log, leaves
\* processed_items and failed_items as they were when it was called and
\* performs no transform and no store.
FatalPath ==
    [][ /\ (pc = "validate_source" /\ ~ValidateSource(source_path).valid
              /\ pc' # pc) => FatalCause
        /\ (pc = "parse_source" /\ ParseSource(source_path).raised
              /\ pc' # pc) => FatalCause
        /\ FatalCause =>
             /\ pc' = "idle"
             /\ result'.kind = "raised"
             /\ processed_items' = at_entry.processed_items
             /\ failed_items' = at_entry.failed_items
             /\ Ops(log') \cap {"process_batch", "transform_record", "store",
                                "insert"} = {}
             /\ enable_progress_tracking =>
                  /\ status' = FAILED
                  /\ errors' = Append(errors, result'.message)
                  /\ Len(errors') = at_entry.error_count + 1
      ]_vars

\* C6 witness: the second ingest() on an instance that has processed records
\* has raised out of parse_source
FatalPathWitness ==
    /\ pc = "idle"
    /\ runs = 2
    /\ result.kind = "raised"
    /\ result.exc = "ParseError"
    /\ enable_progress_tracking
    /\ processed_items > 0
    /\ failed_items > 0
    /\ status = FAILED
    /\ Len(errors) = at_entry.error_count + 1

\* C7: ingest(validate_only=true) on a valid source returns the record count
\* and the first record (or none), invokes neither transform_record nor the
\* store call, leaves processed_items and failed_items unchanged and leaves
\* the status as it was when it was called.
ValidateOnlyNoTransition ==
    [][ Returns("validation") =>
          /\ result'.sample_record = (IF result'.record_count > 0 THEN 0 ELSE -1)
          /\ Ops(log') \cap {"process_batch", "transform_record", "store",
                             "insert"} = {}
          /\ processed_items' = at_entry.processed_items
          /\ failed_items' = at_entry.failed_items
          /\ enable_progress_tracking => status' = at_entry.status
      ]_vars

\* C8: between the call of ingest(validate_only=true) and its return no
\* operation on the backend is performed.
ValidateOnlyNoBackend ==
    (pc = "idle" /\ result.kind = "validation") => Ops(log) \cap BackendOps = {}

\* C9: once the status is Completed or Failed, no call of pause(), resume(),
\* ingest() or cleanup() changes it.
TerminalAbsorbing ==
    [][ (status \in {COMPLETED, FAILED}) => status' = status ]_vars

\* the events that this step adds to the log
NewOps == {log'[k].op : k \in (Len(log) + 1)..Len(log')}

\* C10: with progress tracking on, once pause() has been invoked while batch
\* k is being processed, no record of a later batch is transformed or stored
\* until resume() is invoked, and the status stays Paused in the meantime.
PauseStopsFutureBatches ==
    [][ (enable_progress_tracking /\ pause_point > 0) =>
          /\ (Len(log') > Len(log) /\ pc' # "idle"
                /\ NewOps \cap {"transform_record", "store"} # {})
               => BatchNumber = pause_point
          /\ pause_point' > 0 => status' = PAUSED
      ]_vars

\* C11: for a record that transform_record has staged, once the store call
\* on a connected backend has finished, whether the insert succeeded or
\* raised, the staged file of the record no longer exists.
StagedFileReleased ==
    [][ (Len(transformed') < Len(transformed) /\ pixeltable_client # None) =>
          arg'._temp_file_path \notin Paths(files') ]_vars

\* C12: in every reachable state of a pipeline instance, whatever ingest()
\* calls were made on it, processed_items + failed_items <= total_items.
CounterInvariant ==
    enable_progress_tracking => processed_items + failed_items <= total_items

\* C13: for an existing file whose content is empty after trimming
\* whitespace, validate_source returns false with the reason "File is
\* empty", whatever the extension of the file, supported or not.
EmptyFileReason ==
    (fn = "validate_source" /\ ~arg.stat_error /\ arg.exists /\ arg.readable
       /\ arg.kind = "blank") =>
        /\ ~ret.raised
        /\ ~ret.valid
        /\ ret.reason = "File is empty"

\* C14: validate_source never raises: for every source it returns a pair
\* (valid, reason) whose reason is a non-empty message exactly when valid is
\* false.
ValidateSourceNeverRaises ==
    fn = "validate_source" =>
        /\ ~ret.raised
        /\ ret.valid <=> ret.reason = None
        /\ ret.reason # ""

\* C15: for a JSON list of N conversation objects, the parser returns exactly
\* N canonical records, and the i-th record (0-based) is built from the i-th
\* object and carries conversation_index = i.
ParsePreservesCountAndOrder ==
    (fn = "_parse_json_conversations" /\ \A k \in 1..Len(arg) : arg[k].mapping) =>
        /\ ~ret.raised
        /\ Len(ret.conversations) = Len(arg)
        /\ \A k \in 1..Len(arg) :
              /\ ret.conversations[k].metadata.conversation_index = k - 1
              /\ ret.conversations[k]
                   = extract_conversation_as_document(arg[k], k - 1, clock)

\* C15 witness: a list of three objects, the first two different, has been
\* parsed into three records numbered 0, 1, 2
ParsePreservesCountAndOrderWitness ==
    /\ fn = "_parse_json_conversations"
    /\ Len(arg) = 3
    /\ \A k \in 1..3 : arg[k].mapping
    /\ arg[1] # arg[2]
    /\ Len(ret.conversations) = 3
    /\ ret.conversations[3].metadata.conversation_index = 2
    /\ ret.conversations[1].document_text # ret.conversations[2].document_text

\* the role as the claim renders it
RenderedRole(role) ==
    IF StrLower(role) \in {<<"h", "u", "m", "a", "n">>, <<"u", "s", "e", "r">>}
      THEN <<"H", "u", "m", "a", "n">>
    ELSE IF StrLower(role) \in {<<"a", "s", "s", "i", "s", "t", "a", "n", "t">>,
                                <<"c", "l", "a", "u", "d", "e">>}
      THEN <<"A", "s", "s", "i", "s", "t", "a", "n", "t">>
    ELSE StrTitle(role)

\* C16: every message role, compared case-insensitively, is rendered as
\* "Human" for human and user, as "Assistant" for assistant and claude, and
\* title-cased otherwise; the document text is the blocks "<Role>: <content>"
\* in the order of the messages, joined by a blank line.
RoleNormalization ==
    (fn = "_format_messages_as_text"
       /\ \A k \in 1..Len(arg) : arg[k].role # Absent) =>
        /\ ~ret.raised
        /\ ret.value =
             Join([k \in 1..Len(arg) |->
                     RenderedRole(arg[k].role[1]) \o <<":", " ">>
                       \o (IF arg[k].content = Absent THEN <<>> ELSE arg[k].content[1])],
                  <<"\n", "\n">>)

\* C16 witness: the messages (User, "hi") and (tool_use, no content) have
\* been formatted as "Human: hi", a blank line, "Tool_Use: "
RoleNormalizationWitness ==
    /\ fn = "_format_messages_as_text"
    /\ arg = <<Msg(Some(<<"U", "s", "e", "r">>), Some(<<"h", "i">>)),
               Msg(Some(<<"t", "o", "o", "l", "_", "u", "s", "e">>), Absent)>>
    /\ ret.value = <<"H", "u", "m", "a", "n", ":", " ", "h", "i", "\n", "\n",
                     "T", "o", "o", "l", "_", "U", "s", "e", ":", " ">>

\* C17: two calls of transform_record on the same canonical record, at any
\* two times, stage two distinct files: the records they return never name
\* the same file.
IndependentStagedFiles ==
    \A a, b \in 1..Len(transformed) :
        (a # b /\ transformed[a].record = transformed[b].record) =>
            transformed[a].returned._temp_file_path
                # transformed[b].returned._temp_file_path

\* a readable .json file whose content is not valid JSON
Malformed(src) ==
    /\ ~src.stat_error /\ src.exists /\ src.readable
    /\ Lower(src.suffix) = ".json"
    /\ src.kind = "text"

\* C18: for a .json source whose content is not valid JSON, parse_source
\* returns zero records without raising, and ingest() on that source does
\* not raise out of the parse step but returns a summary with
\* total_records = 0.
MalformedJsonYieldsNoRecords ==
    [][ /\ (pc = "parse_source" /\ Malformed(source_path) /\ pc' # pc) =>
             /\ ~ParseSource(source_path).raised
             /\ ParseSource(source_path).records = <<>>
             /\ NewOps = {"parse_source", "invalid_json"}
             /\ IF validate_only
                  THEN pc' = "idle" /\ result'.kind = "validation"
                         /\ result'.record_count = 0
                  ELSE pc' = "loop" /\ records' = <<>>
        /\ (HasEv(log, "invalid_json", -1) /\ pc = "loop" /\ pc' # pc) =>
             /\ pc' = "idle"
             /\ result'.kind = "summary"
             /\ result'.total_records = 0
             /\ result'.processed_records = 0
             /\ result'.failed_records = 0
        /\ HasEv(log', "invalid_json", -1) =>
             /\ result'.kind # "raised"
             /\ Ops(log') \cap {"process_batch", "transform_record", "store"} = {}
      ]_vars

\* C18 witness: ingest() of a .json file that is not valid JSON has returned
\* a summary of zero records
MalformedJsonYieldsNoRecordsWitness ==
    /\ pc = "idle"
    /\ HasEv(log, "invalid_json", -1)
    /\ result.kind = "summary"
    /\ result.total_records = 0
    /\ result.status = COMPLETED

\* C19: the progress math is total: completion_percentage is 0 when
\* total_items is 0 and processed/total*100 otherwise, success_rate is 0 when
\* processed_items is 0 and (processed-failed)/processed*100 otherwise, and
\* neither property divides by zero.
ProgressMathTotal ==
    fn = "get_progress" =>
        /\ ~ret.completion_percentage.raised
        /\ ~ret.success_rate.raised
        /\ ret.completion_percentage.den # 0
        /\ ret.success_rate.den # 0
        /\ IF total_items = 0
             THEN ret.completion_percentage.num = 0
             ELSE ret.completion_percentage.num * total_items
                    = processed_items * 100 * ret.completion_percentage.den
        /\ IF processed_items = 0
             THEN ret.success_rate.num = 0
             ELSE ret.success_rate.num * processed_items
                    = (processed_items - failed_items) * 100 * ret.success_rate.den

\* C19 witness: the progress was serialized with total_items = 0 and
\* processed_items > 0, and again the rate with processed_items > 0
ProgressMathTotalWitness ==
    /\ fn = "get_progress"
    /\ total_items = 0
    /\ processed_items = 2
    /\ failed_items = 1
    /\ ret.completion_percentage = Zero
    /\ ret.success_rate = [raised |-> FALSE, num |-> 100, den |-> 2]

\* C20: after n add_error calls the serialized progress reports
\* error_count = n and recent_errors equal to the last min(n, 5) messages in
\* the order they were added; each add_error adds its message at the end.
BoundedErrorView ==
    [][ /\ fn' = "add_error" => errors' = Append(errors, arg')
        /\ fn' = "get_progress" =>
             LET n == Len(errors')
                 recent == ret'.recent_errors
             IN  /\ ret'.error_count = n
                 /\ Len(recent) = Min(n, 5)
                 /\ \A k \in 1..Len(recent) :
                        recent[k] = errors'[n - Len(recent) + k]
      ]_vars

\* C20 witness: six messages were added, the first one differs from the
\* others, and the serialized progress holds the five last ones
BoundedErrorViewWitness ==
    /\ fn = "get_progress"
    /\ Len(errors) = 6
    /\ errors[1] = "Batch"
    /\ ret.error_count = 6
    /\ ret.recent_errors = <<"Record processing", "Record processing",
                             "Record processing", "Record processing", "Batch">>


\* the outcomes of one call of cleanup() on a client and a set of staged files
CleanupOutcomes(client, fs) == {cleanup(client, fs, removed) : removed \in BOOLEAN}

\* C21: cleanup() is idempotent: in every state a call raises nothing and
\* unsets the client, a removal that succeeds leaves no staged file, a second
\* call right after raises nothing either and can only lead where one call
\* leads, changing nothing once the first call removed the files; and no
\* step that releases the client or empties the staging directory changes
\* the progress fields
CleanupIdempotentStates ==
    \A once \in CleanupOutcomes(pixeltable_client, files) :
        /\ ~once.raised
        /\ once.pixeltable_client = None
        /\ once.files \in {files, {}}
        /\ cleanup(pixeltable_client, files, TRUE).files = {}
        /\ \A twice \in CleanupOutcomes(once.pixeltable_client, once.files) :
              /\ ~twice.raised
              /\ twice \in CleanupOutcomes(pixeltable_client, files)
              /\ once.files = {} => twice = once

PlainTextSource(src) ==
    /\ ValidateSource(src) = [raised |-> FALSE, valid |-> TRUE, reason |-> None]
    /\ Lower(src.suffix) # ".json"

\* the run has handed its source to _parse_text_conversations
ParsedAsText == HasEv(log, "_parse_text_conversations", -1)

\* C22: a non-empty source with a supported extension other than .json is
\* parsed to exactly one record, numbered 0, whose document_text is the
\* whole text of the file; the run keeps that one record to its end and the
\* summary (or the validation result) reports one record
PlainTextOneRecord ==
    /\ [][(pc = "parse_source" /\ pc' # pc /\ PlainTextSource(source_path)) =>
            LET docs == parse_text_conversations(TextOf(source_path),
                                                 clock).conversations
            IN  /\ Len(docs) = 1
                /\ docs[1].metadata.conversation_index = 0
                /\ docs[1].metadata.format = "text"
                /\ docs[1].document_text = TextOf(source_path)
                /\ ParsedAsText'
                /\ IF validate_only
                     THEN /\ Returns("validation")
                          /\ result'.record_count = 1
                          /\ result'.sample_record = 0
                     ELSE /\ pc' = "loop"
                          /\ records' = <<0>>
                          /\ enable_progress_tracking => total_items' = 1]_vars
    /\ [](ParsedAsText /\ pc \in {"loop", "process_batch"} => records = <<0>>)
    /\ [](ParsedAsText /\ pc = "idle" /\ result.kind = "summary"
            => result.total_records = 1)

\* a plain-text source was ingested to its end and one record is reported
PlainTextOneRecordWitness ==
    /\ ParsedAsText
    /\ pc = "idle"
    /\ result.kind = "summary"
    /\ result.total_records = 1
    /\ result.processed_records = 1


\* the log entries of the work on single records
RecordOps == {"transform_record", "raise_transform_record", "store",
              "get_table", "insert", "raise_store"}

\* the positions of the log at which record r was passed to transform_record
TransformsOf(r) == {k \in 1..Len(log) : log[k] = Ev("transform_record", r)}

\* within the run: transforms happen in source order and never twice for a
\* record, a store directly follows the transform of its own record, and
\* all the work on a record precedes all the work on the records after it
SequentialAttempts ==
    /\ \A k1, k2 \in 1..Len(log) :
          (k1 < k2 /\ log[k1].op = "transform_record"
                   /\ log[k2].op = "transform_record") => log[k1].rec < log[k2].rec
    /\ \A k \in 1..Len(log) :
          log[k].op = "store" =>
              k > 1 /\ log[k - 1] = Ev("transform_record", log[k].rec)
    /\ \A k1, k2 \in 1..Len(log) :
          (k1 < k2 /\ log[k1].op \in RecordOps /\ log[k2].op \in RecordOps)
              => log[k1].rec <= log[k2].rec

\* C23 (amended): records are attempted in source order, one after the
\* other, each at most once and a store only after the record's own
\* transform; when the summary is returned every record was passed to
\* transform_record exactly once, except records of a batch whose processing
\* raised, which may have been left unattempted
StrictSequentialOrder ==
    /\ SequentialAttempts
    /\ (pc = "idle" /\ result.kind = "summary") =>
          \A r \in 0..(result.total_records - 1) :
              \/ Cardinality(TransformsOf(r)) = 1
              \/ /\ TransformsOf(r) = {}
                 /\ (r \div batch_size) + 1 \in raised_batches

\* two batches were processed record by record, with a failed transform on
\* the way, and the summary counts all three records as attempted
StrictSequentialOrderWitness ==
    /\ pc = "idle"
    /\ result.kind = "summary"
    /\ result.total_records = 3
    /\ batch_size = 2
    /\ raised_batches = {}
    /\ HasEv(log, "raise_transform_record", 1)
    /\ HasEv(log, "insert", 0)
    /\ HasEv(log, "insert", 2)

\* C23 as stated: by the end of the run every record was passed to
\* transform_record exactly once
EveryRecordTransformedOnce ==
    (pc = "idle" /\ result.kind = "summary") =>
        \A r \in 0..(result.total_records - 1) : Cardinality(TransformsOf(r)) = 1


\* C24: in every summary each record is counted exactly once: the processed
\* and the failed records add up to the total, also when the processing of
\* a batch raised after records of it had been tallied
SummaryCountsEachRecordOnce ==
    (pc = "idle" /\ result.kind = "summary") =>
        result.processed_records + result.failed_records = result.total_records


\* a step of pause() or resume(): the only steps that leave the position in
\* ingest(), the log of operations, the client and the staged files as they
\* are (a call that changes nothing is a stuttering step)
PauseOrResumeStep ==
    UNCHANGED <<pc, log, pixeltable_client, staging_vars, call_vars>>

\* C25: pause() and resume() leave total_items, processed_items,
\* failed_items and the error log unchanged in every state, they change
\* nothing but the status, and nothing at all of the instance when progress
\* tracking is disabled
PauseResumeFrame ==
    [][PauseOrResumeStep =>
         /\ UNCHANGED <<total_items, processed_items, failed_items, errors>>
         /\ UNCHANGED <<batch_size, enable_progress_tracking, frame_vars,
                        batch_vars, result, raised_batches, at_entry, runs>>
         /\ status' \in {status, PAUSED, RUNNING}
         /\ ~enable_progress_tracking => status' = status]_vars

\* pause() took effect in the middle of a batch, with records counted and
\* errors logged before
PauseResumeFrameWitness ==
    /\ status = PAUSED
    /\ pc = "process_batch"
    /\ processed_items > 0
    /\ failed_items > 0
    /\ Len(errors) > 0


\* C26: the status becomes Paused only from Running, and pause() or
\* resume() makes it Running only from Paused; in particular pause() on a
\* Pending instance does not give Paused and resume() on a Pending instance
\* does not give Running
PausedOnlyFromRunning ==
    [][PauseOrResumeStep =>
         /\ (status' = PAUSED /\ status # PAUSED) => status = RUNNING
         /\ (status' = RUNNING /\ status # RUNNING) => status = PAUSED]_vars


\* the file that transform_record wrote for the k-th record not yet stored
StagedFileOf(k) ==
    LET record == transformed[k].record
    IN  [path |-> transformed[k].returned._temp_file_path,
         content |-> temp_file_content(record.document_text, record.title,
                                       record.metadata)]

\* a call of the second instance, while the first one holds its client
OtherInstanceStep ==
    /\ fn' \in {"other.transform_record", "other.cleanup"}
    /\ pixeltable_client = "pxt"
    /\ UNCHANGED <<pixeltable_client, transformed, clock>>

\* C27: no call of the second instance (its cleanup(), or a transform_record
\* that makes the same file name) removes or overwrites a file that the
\* first instance has staged and not yet stored
StagedFilesNotShared ==
    [][OtherInstanceStep =>
         \A k \in 1..Len(transformed) :
             StagedFileOf(k) \in files => StagedFileOf(k) \in files']_vars


\* C28: the mapping that _store_pixeltable hands to the insert has no key
\* that starts with '_' (not the key of the staged path either) and has
\* every other key of the transformed record, with the record's value
TransientFieldsNotPersisted ==
    fn = "_store_pixeltable" =>
        \A n \in 1..Len(ret.insert_args) :
            LET stored == ret.insert_args[n]
            IN  /\ \A key \in DOMAIN stored : ~startswith(key, "_")
                /\ "_temp_file_path" \notin DOMAIN stored
                /\ DOMAIN stored \subseteq DOMAIN arg
                /\ \A key \in DOMAIN arg :
                      ~startswith(key, "_") =>
                          key \in DOMAIN stored /\ stored[key] = arg[key]

\* a record that carries the staged path was inserted
TransientFieldsNotPersistedWitness ==
    /\ fn = "_store_pixeltable"
    /\ ret.inserted
    /\ Len(ret.insert_args) = 1
    /\ "_temp_file_path" \in DOMAIN arg
    /\ DOMAIN ret.insert_args[1] = {"pdf_file", "document_metadata", "ingested_at"}


IsPercentage(rate) ==
    /\ ~rate.raised
    /\ rate.den > 0
    /\ 0 <= rate.num
    /\ rate.num <= 100 * rate.den

\* C30: in every summary the success rate is a percentage, and so is the
\* success rate of the progress snapshot that the summary carries
SuccessRateIsPercentage ==
    (pc = "idle" /\ result.kind = "summary") =>
        /\ IsPercentage(result.success_rate)
        /\ enable_progress_tracking => IsPercentage(to_dict.success_rate)

====
